---- MODULE Spec2Model ----
(***************************************************************************)
(* The research agent: ConversationMemory (memory/conversation.py),        *)
(* ToolRegistry (agent/tool_registry.py) and the ReAct loop AgentLoop      *)
(* (agent/agent_loop.py).  Strings that the code transforms are sequences  *)
(* of characters; strings it only passes around are TLA+ strings.          *)
(***************************************************************************)
EXTENDS Integers, Sequences, FiniteSets, TLC

VARIABLES
    memory,       \* ConversationMemory: [messages, turn_count]
    registry,     \* ToolRegistry counters: [search_count, scrape_count]
    pc,           \* "idle" (no run in progress), "loop" (top of the for loop), "exit_loop" (after break)
    step,         \* loop variable of AgentLoop.run
    system,       \* local `system` of AgentLoop.run
    response,     \* local `response` of AgentLoop.run (last backend response)
    request,      \* keyword arguments of the last client.messages.create call
    sentSystems,  \* `system` arguments of all messages.create calls of the current run
    calls,        \* number of messages.create calls of the current run
    entryLen,     \* len(memory._messages) when the current run was entered
    dispatched,   \* registry.execute calls made for the last response, in call order
    outcome,      \* how the last run call left: "none", "returned", "raised"
    answer,       \* the value the last run call returned
    ended,        \* which exit the last run took
    runs,         \* number of run calls so far
    rich,         \* number of uncommon backend responses so far
    scr,          \* one WebScraper.scrape call: [pc, url, gets, net, result]
    srch,         \* one WebSearch.search_and_format call: [pc, query, num, data, posted, raised, out]
    twin          \* two AgentLoop objects fed the same inputs: [started, a, b, runs, replies]

agentVars == <<memory, registry, pc, step, system, response, request, sentSystems,
               calls, entryLen, dispatched, outcome, answer, ended, runs, rich>>

toolVars == <<scr, srch, twin>>

vars == <<memory, registry, pc, step, system, response, request, sentSystems,
          calls, entryLen, dispatched, outcome, answer, ended, runs, rich, scr, srch,
          twin>>

----------------------------------------------------------------------------
(* Bounds *)

MaxRuns == 2
MaxRich == 2

----------------------------------------------------------------------------
(* Program constants *)

MAX_ITERATIONS == 10

RESEARCHER_PROMPT == "RESEARCHER_PROMPT"

FOLLOWUP_PROMPT == "FOLLOWUP_PROMPT"

FALLBACK_MESSAGE == <<"I wasn't able to find a reliable answer. ...">>

----------------------------------------------------------------------------
(* Strings as character sequences: str.strip and str.join *)

IsSpace(c) == c \in {" ", "\n", "\t"}

RECURSIVE LStrip(_)
LStrip(s) == IF s # <<>> /\ IsSpace(Head(s)) THEN LStrip(Tail(s)) ELSE s

RECURSIVE RStrip(_)
RStrip(s) ==
    IF s # <<>> /\ IsSpace(s[Len(s)]) THEN RStrip(SubSeq(s, 1, Len(s) - 1)) ELSE s

Strip(s) == RStrip(LStrip(s))

RECURSIVE JoinLines(_)
JoinLines(ts) ==
    IF ts = <<>> THEN <<>>
    ELSE IF Len(ts) = 1 THEN ts[1]
    ELSE ts[1] \o <<"\n">> \o JoinLines(Tail(ts))

UpperLetters ==
    <<"A", "B", "C", "D", "E", "F", "G", "H", "I", "J", "K", "L", "M", 
      "N", "O", "P", "Q", "R", "S", "T", "U", "V", "W", "X", "Y", "Z">>

LowerLetters ==
    <<"a", "b", "c", "d", "e", "f", "g", "h", "i", "j", "k", "l", "m", 
      "n", "o", "p", "q", "r", "s", "t", "u", "v", "w", "x", "y", "z">>

\* str.lower on one character, as re.I compares
Lower(c) ==
    IF \E i \in 1..26 : UpperLetters[i] = c
    THEN LowerLetters[CHOOSE i \in 1..26 : UpperLetters[i] = c]
    ELSE c

LowerAll(s) == [i \in 1..Len(s) |-> Lower(s[i])]

----------------------------------------------------------------------------
(* Content blocks.  Every block carries the same fields; `type` tells which *)
(* attributes the Python object has.                                        *)

NoInput == [none |-> "none"]

TextBlock(t) ==
    [type |-> "text", text |-> t, id |-> "", name |-> "", input |-> NoInput]

ToolUseBlock(i, n, inp) ==
    [type |-> "tool_use", text |-> <<>>, id |-> i, name |-> n, input |-> inp]

ToolResult(i, output) ==
    [type |-> "tool_result", text |-> output, id |-> i, name |-> "", input |-> NoInput]

HasText(block) == block.type = "text"

IsToolUse(block) == block.type = "tool_use"

Get(d, k, default) == IF k \in DOMAIN d THEN d[k] ELSE default

----------------------------------------------------------------------------
(* ConversationMemory *)

NewMemory == [messages |-> <<>>, turn_count |-> 0]

add_user_message_counts(m, text) ==
    [messages   |-> Append(m.messages,
                       [role |-> "user", kind |-> "question", content |-> <<TextBlock(text)>>]),
     turn_count |-> m.turn_count + 1]

add_user_message(m, text) ==
    [m EXCEPT !.messages =
        Append(@, [role |-> "user", kind |-> "question", content |-> <<TextBlock(text)>>])]

add_assistant_message(m, content) ==
    [messages   |-> Append(m.messages,
                       [role |-> "assistant", kind |-> "content", content |-> content]),
     turn_count |-> m.turn_count + 1]

add_tool_results(m, tool_results) ==
    [m EXCEPT !.messages =
        Append(@, [role |-> "user", kind |-> "tool_results", content |-> tool_results])]

get_messages_recent(m) ==
    SubSeq(m.messages, IF Len(m.messages) > 2 THEN Len(m.messages) - 1 ELSE 1,
           Len(m.messages))

get_messages(m) == m.messages

is_followup(m) == m.turn_count > 0

clear_keeps_count(m) == [m EXCEPT !.messages = <<>>]

clear(m) == [messages |-> <<>>, turn_count |-> 0]

----------------------------------------------------------------------------
(* WebScraper (tools/web_scraper.py) *)

MAX_CHARS == 3000

TIMEOUT_SECS == 10

StartsWith(s, prefix) ==
    Len(s) >= Len(prefix) /\ SubSeq(s, 1, Len(prefix)) = prefix

HttpPrefix == <<"h", "t", "t", "p", ":", "/", "/">>

HttpsPrefix == <<"h", "t", "t", "p", "s", ":", "/", "/">>

ValidUrlLoose(url) == StartsWith(url, <<"h", "t", "t", "p">>)

\* url.startswith(("http://", "https://"))
ValidUrl(url) == StartsWith(url, HttpPrefix) \/ StartsWith(url, HttpsPrefix)

DigitChar(d) == ToString(d)

\* str(n) for n >= 0, as characters
RECURSIVE Digits(_)
Digits(n) == IF n < 10 THEN <<DigitChar(n)>> ELSE Digits(n \div 10) \o <<DigitChar(n % 10)>>

\* str.splitlines
RECURSIVE SplitLines(_)
SplitLines(s) ==
    IF s = <<>> THEN <<>>
    ELSE LET breaks == {i \in 1..Len(s) : s[i] = "\n"}
         IN  IF breaks = {} THEN <<s>>
             ELSE LET p == CHOOSE i \in breaks : \A j \in breaks : i <= j
                  IN  <<SubSeq(s, 1, p - 1)>> \o SplitLines(SubSeq(s, p + 1, Len(s)))

\* [line.strip() for line in ...]
StripEach(lines) == [i \in 1..Len(lines) |-> Strip(lines[i])]

NonEmptyLine(line) == line # <<>>

\* [line for line in lines if line]
DropEmpty(lines) == SelectSeq(lines, NonEmptyLine)

\* the blank_count loop of _clean_text, from line i on
RECURSIVE CollapseBlanksFrom(_, _, _, _)
CollapseBlanksFrom(lines, i, blank_count, cleaned_lines) ==
    IF i > Len(lines) THEN cleaned_lines
    ELSE IF lines[i] = <<>>
         THEN CollapseBlanksFrom(lines, i + 1, blank_count + 1,
                  IF blank_count + 1 <= 2 THEN Append(cleaned_lines, lines[i])
                  ELSE cleaned_lines)
         ELSE CollapseBlanksFrom(lines, i + 1, 0, Append(cleaned_lines, lines[i]))

CollapseBlanks(lines) == CollapseBlanksFrom(lines, 1, 0, <<>>)

KeepsChar(pair) == ~(pair[1] = " " /\ pair[2] = " ")

\* re.sub(r"  ", " ", text): every pair of spaces becomes one space
CollapseSpacesPairwise(s) ==
    LET RunStart(i) == CHOOSE j \in 1..i :
                          /\ \A n \in j..i : s[n] = " "
                          /\ j = 1 \/ s[j - 1] # " "
        pairs == [i \in 1..Len(s) |->
                    <<s[i], IF s[i] = " " /\ (i - RunStart(i)) % 2 = 1 THEN " " ELSE "">>]
        kept  == SelectSeq(pairs, KeepsChar)
    IN  [i \in 1..Len(kept) |-> kept[i][1]]

\* re.sub(r" {2,}", " ", text): a space that follows a space is dropped
CollapseSpaces(s) ==
    LET pairs == [i \in 1..Len(s) |-> <<s[i], IF i > 1 THEN s[i - 1] ELSE "">>]
        kept  == SelectSeq(pairs, KeepsChar)
    IN  [i \in 1..Len(kept) |-> kept[i][1]]

\* WebScraper._clean_text
_clean_text(text) ==
    Strip(CollapseSpaces(JoinLines(CollapseBlanks(DropEmpty(StripEach(SplitLines(text)))))))

SourceLabel == <<"S", "O", "U", "R", "C", "E", ":", " ">>

TitleLabel == <<"T", "I", "T", "L", "E", ":", " ", " ">>

\* the rule character of the source is written "-" here
RuleLine == [i \in 1..40 |-> "-"]

\* f"SOURCE: {url}\nTITLE:  {title_text}\n{rule * 40}\n"
Header(url, title_text) ==
    SourceLabel \o url \o <<"\n">> \o TitleLabel \o title_text \o <<"\n">>
        \o RuleLine \o <<"\n">>

\* f"\n\n[... truncated at {MAX_CHARS} chars ...]"
TruncationMarker ==
    <<"\n", "\n", "[", ".", ".", ".", " ", "t", "r", "u", "n", "c", "a", "t", "e", "d",
      " ", "a", "t", " ">> \o Digits(MAX_CHARS)
        \o <<" ", "c", "h", "a", "r", "s", " ", ".", ".", ".", "]">>

TruncateFromBudget(text) ==
    IF Len(text) >= MAX_CHARS
    THEN SubSeq(text, 1, MAX_CHARS) \o TruncationMarker
    ELSE text

\* if len(text) > MAX_CHARS: text = text[:MAX_CHARS] + marker
Truncate(text) ==
    IF Len(text) > MAX_CHARS
    THEN SubSeq(text, 1, MAX_CHARS) \o TruncationMarker
    ELSE text

\* title.get_text().strip() if title else "Unknown"
TitleText(page) ==
    IF page.has_title THEN Strip(page.title)
    ELSE <<"U", "n", "k", "n", "o", "w", "n">>

Failed(reason, message) ==
    [kind |-> "Failed", reason |-> reason, out |-> message,
     header |-> <<>>, cleaned |-> <<>>]

\* Steps 3 to 10 of scrape: the response of a successful GET to the result.
\* page is the parsed document after noise removal: whether a main-content
\* element was found, its get_text, and the title element.
Extract(url, content_type, page) ==
    IF \A i \in 1..Len(content_type) : content_type[i] # "text/html"
    THEN Failed("unsupported_type",
                <<"Error: Cannot scrape this file type (Content-Type: ">>
                    \o content_type \o <<"). web_scraper only works on HTML pages.">>)
    ELSE IF ~page.has_main
    THEN Failed("no_content_found",
                <<"Error: Could not find readable content on this page.">>)
    ELSE LET text == _clean_text(page.raw)
         IN  IF text = <<>>
             THEN Failed("no_readable_text",
                         <<"Error: Page was found but contained no readable text.">>)
             ELSE LET header == Header(url, TitleText(page))
                  IN  [kind |-> "Ok", reason |-> "none",
                       out |-> header \o Truncate(text),
                       header |-> header, cleaned |-> text]

\* The except clauses of scrape: a failed GET to the result.
FetchFailure(url, net) ==
    IF net.kind = "timeout"
    THEN Failed("timeout", <<"Error: Page took too long to load (>">>
                               \o Digits(TIMEOUT_SECS) \o <<"s). Try a different URL.">>)
    ELSE IF net.kind = "connection"
    THEN Failed("connection", <<"Error: Could not connect to '">> \o url
                     \o <<"'. Check the URL or your internet connection.">>)
    ELSE IF net.kind = "http"
    THEN IF net.status = 403
         THEN Failed("blocked", <<"Error: Access denied (403). '">> \o url
                          \o <<"' blocks automated requests.">>)
         ELSE IF net.status = 404
         THEN Failed("missing", <<"Error: Page not found (404). '">> \o url
                          \o <<"' does not exist.">>)
         ELSE Failed("http_status", <<"Error: HTTP ">> \o Digits(net.status)
                          \o <<" from '">> \o url \o <<"'.">>)
    ELSE Failed("transport", <<"Error fetching '">> \o url \o <<"': ">>)

InvalidUrl(url) ==
    Failed("invalid_url", <<"Error: Invalid URL '">> \o url
               \o <<"'. Must start with http:// or https://">>)

\* The rest of scrape once requests.get has answered (or failed) with net.
AfterGet(url, net) ==
    IF net.kind = "ok" THEN Extract(url, net.content_type, net.page)
    ELSE FetchFailure(url, net)

\* WebScraper.scrape as a whole: the result and the number of GETs issued.
ScrapeWith(url, net) ==
    IF ~ValidUrl(url)
    THEN [result |-> InvalidUrl(url), gets |-> 0]
    ELSE [result |-> AfterGet(url, net), gets |-> 1]

----------------------------------------------------------------------------
(* The parsed page: steps 4 to 7 of scrape.  A document is an optional body *)
(* and its elements in document order, each [tag, id, class, style, text]. *)

NOISE_TAGS ==
    {"script", "style", "nav", "footer", "header", "aside", "form", "iframe",
     "noscript", "advertisement"}

\* w occurs in s from position i on
OccursAt(s, i, w) == i + Len(w) - 1 <= Len(s) /\ SubSeq(s, i, i + Len(w) - 1) = w

\* re.search of a literal word
Contains(s, w) == \E i \in 1..(Len(s) + 1) : OccursAt(s, i, w)

\* re.search of  word ":" \s* value
DeclaresAt(s, i, word, value) ==
    /\ OccursAt(s, i, word)
    /\ \E j \in (i + Len(word))..(Len(s) + 1) :
          /\ \A n \in (i + Len(word))..(j - 1) : IsSpace(s[n])
          /\ OccursAt(s, j, value)

\* re.compile(r"display:\s*none|visibility:\s*hidden").search(style)
HiddenStyle(style) ==
    \E i \in 1..Len(style) :
        \/ DeclaresAt(style, i, <<"d", "i", "s", "p", "l", "a", "y", ":">>,
                         <<"n", "o", "n", "e">>)
        \/ DeclaresAt(style, i, <<"v", "i", "s", "i", "b", "i", "l", "i", "t", "y", ":">>,
                         <<"h", "i", "d", "d", "e", "n">>)

\* re.compile(r"article|content|post|story", re.I).search(class)
ClassMatches(class) ==
    \E w \in {<<"a", "r", "t", "i", "c", "l", "e">>,
              <<"c", "o", "n", "t", "e", "n", "t">>,
              <<"p", "o", "s", "t">>,
              <<"s", "t", "o", "r", "y">>} :
        Contains(LowerAll(class), w)

\* step 5: decompose the noise tags and the elements styled as hidden
IsKept(e) == e.tag \notin NOISE_TAGS /\ ~HiddenStyle(e.style)

RemoveNoise(elements) == SelectSeq(elements, IsKept)

IsArticle(e) == e.tag = "article"

IsMain(e) == e.tag = "main"

HasContentId(e) == e.id = "content"

HasContentClass(e) == ClassMatches(e.class)

NoElement == [tag |-> "none"]

\* the argument of soup.find: a tag name, id="content" or the class pattern
Matches(e, what) ==
    IF what = "id" THEN HasContentId(e)
    ELSE IF what = "class" THEN HasContentClass(e)
    ELSE e.tag = what

\* soup.find: the first element matching, or None
Find(elements, what) ==
    IF \E i \in 1..Len(elements) : Matches(elements[i], what)
    THEN elements[CHOOSE i \in 1..Len(elements) :
                     /\ Matches(elements[i], what)
                     /\ \A j \in 1..(i - 1) : ~Matches(elements[j], what)]
    ELSE NoElement

TextsOfElements(elements) == [i \in 1..Len(elements) |-> elements[i].text]

\* the body element: its text is that of all its elements
Body(has_body, elements) ==
    IF has_body
    THEN [tag |-> "body", text |-> JoinLines(TextsOfElements(elements))]
    ELSE NoElement

Or(x, y) == IF x # NoElement THEN x ELSE y

MainContentMainFirst(has_body, elements) ==
    Or(Find(elements, "main"),
       Or(Find(elements, "article"),
          Or(Find(elements, "id"),
             Or(Find(elements, "class"),
                Body(has_body, elements)))))

\* step 6: article or main or id="content" or a matching class or body
MainContent(has_body, elements) ==
    Or(Find(elements, "article"),
       Or(Find(elements, "main"),
          Or(Find(elements, "id"),
             Or(Find(elements, "class"),
                Body(has_body, elements)))))

\* steps 4 to 7: the page as Extract reads it
Parse(doc) ==
    LET kept         == RemoveNoise(doc.elements)
        main_content == MainContent(doc.has_body, kept)
    IN  [has_main  |-> main_content # NoElement,
         raw       |-> IF main_content # NoElement THEN main_content.text ELSE <<>>,
         has_title |-> FALSE,
         title     |-> <<>>]

----------------------------------------------------------------------------
(* WebSearch (tools/web_search.py) *)

\* data["organic"][:num_results]
SliceTo(list, n) ==
    IF n >= 0
    THEN SubSeq(list, 1, IF n < Len(list) THEN n ELSE Len(list))
    ELSE SubSeq(list, 1, IF Len(list) + n > 0 THEN Len(list) + n ELSE 0)

DirectAnswer(box_answer) == <<"DIRECT ANSWER: ", box_answer>>

\* f"Result {i+1}:\n  Title:   {title}\n  Summary: {snippet}\n  URL:     {link}\n"
ResultEntry(i, title, snippet, link) ==
    <<"Result ", ToString(i + 1), ":\n",
      "  Title:   ", title, "\n",
      "  Summary: ", snippet, "\n",
      "  URL:     ", link, "\n">>

\* the answerBox part of search_and_format
AnswerPart(data) ==
    IF "answerBox" \in DOMAIN data /\ Get(data.answerBox, "answer", "") # ""
    THEN <<DirectAnswer(Get(data.answerBox, "answer", ""))>>
    ELSE <<>>

RECURSIVE OrganicFromEither(_, _)
OrganicFromEither(results, k) ==
    IF k > Len(results) THEN <<>>
    ELSE LET title   == Get(results[k], "title", "")
             link    == Get(results[k], "link", "")
             snippet == Get(results[k], "snippet", "")
         IN  (IF title # "" \/ link # ""
              THEN <<ResultEntry(k - 1, title, snippet, link)>>
              ELSE <<>>) \o OrganicFromEither(results, k + 1)

\* the loop over enumerate(data["organic"][:num_results]), from position k on
\* (k is i + 1 of the source)
RECURSIVE OrganicFrom(_, _)
OrganicFrom(results, k) ==
    IF k > Len(results) THEN <<>>
    ELSE LET title   == Get(results[k], "title", "")
             link    == Get(results[k], "link", "")
             snippet == Get(results[k], "snippet", "")
         IN  (IF title # "" /\ link # ""
              THEN <<ResultEntry(k - 1, title, snippet, link)>>
              ELSE <<>>) \o OrganicFrom(results, k + 1)

OrganicPart(data, num_results) ==
    IF "organic" \in DOMAIN data
    THEN OrganicFrom(SliceTo(data.organic, num_results), 1)
    ELSE <<>>

NoResultsText == <<"No results found.">>

FormatResultsAnswerLast(data, num_results) ==
    LET formatted_results == OrganicPart(data, num_results) \o AnswerPart(data)
        final_output      == JoinLines(formatted_results)
    IN  IF final_output # <<>> THEN final_output ELSE NoResultsText

\* search_and_format after web_search has returned data
FormatResults(data, num_results) ==
    LET formatted_results == AnswerPart(data) \o OrganicPart(data, num_results)
        final_output      == JoinLines(formatted_results)
    IN  IF final_output # <<>> THEN final_output ELSE NoResultsText

\* WebSearch.search_and_format with the answer net of the search backend: the
\* POST carries q and num as given; a transport failure or a non-2xx status
\* (raise_for_status) raises out of web_search and search_and_format.
SearchWith(query, num_results, net) ==
    [posted |-> [q |-> query, num |-> num_results],
     raised |-> net.kind # "ok",
     output |-> IF net.kind = "ok" THEN FormatResults(net.data, num_results) ELSE <<>>]

----------------------------------------------------------------------------
(* ToolRegistry *)

NewRegistry == [search_count |-> 0, scrape_count |-> 0]

\* What the search backend and the fetched site answer inside a run: one
\* successful answer and one failure each.
SearchNet(query, env) ==
    IF env = "ok"
    THEN [kind |-> "ok",
          data |-> [organic |-> <<[title |-> "t1", link |-> "u1", snippet |-> query]>>]]
    ELSE [kind |-> "http", status |-> 500]

ScrapeNet(env) ==
    IF env = "ok"
    THEN [kind |-> "ok", content_type |-> <<"text/html">>,
          page |-> [has_main |-> TRUE, raw |-> <<"a", "\n", "b">>,
                    has_title |-> TRUE, title |-> <<"T">>]]
    ELSE [kind |-> "timeout"]

\* WebSearch.search_and_format as ToolRegistry.execute sees it: the POST to the
\* search backend is not guarded, so a failure raises.
search_and_format(query, num_results, env) ==
    LET r == SearchWith(query, num_results, SearchNet(query, env))
    IN  [raised |-> r.raised, output |-> r.output]

\* WebScraper.scrape as ToolRegistry.execute sees it: every requests exception
\* is turned into a string.
scrape(url, env) ==
    [raised |-> FALSE, output |-> ScrapeWith(url, ScrapeNet(env)).result.out]

\* execute refusing a search once a search has been counted
execute_rate_limited(r, tool_name, tool_input, env) ==
    IF tool_name = "web_search" /\ r.search_count >= 1
    THEN [registry |-> [r EXCEPT !.search_count = @ + 1],
          raised   |-> FALSE,
          output   |-> <<"Error: search limit reached">>]
    ELSE IF tool_name = "web_search"
    THEN LET res == search_and_format(Get(tool_input, "query", ""),
                                      Get(tool_input, "num_results", 5), env)
         IN  [registry |-> [r EXCEPT !.search_count = @ + 1],
              raised   |-> res.raised,
              output   |-> res.output]
    ELSE IF tool_name = "web_scraper"
    THEN LET res == scrape(Get(tool_input, "url", <<>>), env)
         IN  [registry |-> [r EXCEPT !.scrape_count = @ + 1],
              raised   |-> res.raised,
              output   |-> res.output]
    ELSE [registry |-> r,
          raised   |-> FALSE,
          output   |-> <<"Error: Unknown tool '", tool_name, "'">>]

\* execute counting a tool only after it has returned
execute_counts_completed(r, tool_name, tool_input, env) ==
    IF tool_name = "web_search"
    THEN LET res == search_and_format(Get(tool_input, "query", ""),
                                      Get(tool_input, "num_results", 5), env)
         IN  [registry |-> IF res.raised THEN r ELSE [r EXCEPT !.search_count = @ + 1],
              raised   |-> res.raised,
              output   |-> res.output]
    ELSE IF tool_name = "web_scraper"
    THEN LET res == scrape(Get(tool_input, "url", <<>>), env)
         IN  [registry |-> [r EXCEPT !.scrape_count = @ + 1],
              raised   |-> res.raised,
              output   |-> res.output]
    ELSE [registry |-> r,
          raised   |-> FALSE,
          output   |-> <<"Error: Unknown tool '", tool_name, "'">>]

execute_unknown_scrapes(r, tool_name, tool_input, env) ==
    IF tool_name = "web_search"
    THEN LET res == search_and_format(Get(tool_input, "query", ""),
                                      Get(tool_input, "num_results", 5), env)
         IN  [registry |-> [r EXCEPT !.search_count = @ + 1],
              raised   |-> res.raised,
              output   |-> res.output]
    ELSE LET res == scrape(Get(tool_input, "url", <<>>), env)
         IN  [registry |-> [r EXCEPT !.scrape_count = @ + 1],
              raised   |-> res.raised,
              output   |-> res.output]

\* ToolRegistry.execute: the counter is incremented before the tool runs.
execute(r, tool_name, tool_input, env) ==
    IF tool_name = "web_search"
    THEN LET res == search_and_format(Get(tool_input, "query", ""),
                                      Get(tool_input, "num_results", 5), env)
         IN  [registry |-> [r EXCEPT !.search_count = @ + 1],
              raised   |-> res.raised,
              output   |-> res.output]
    ELSE IF tool_name = "web_scraper"
    THEN LET res == scrape(Get(tool_input, "url", <<>>), env)
         IN  [registry |-> [r EXCEPT !.scrape_count = @ + 1],
              raised   |-> res.raised,
              output   |-> res.output]
    ELSE [registry |-> r,
          raised   |-> FALSE,
          output   |-> <<"Error: Unknown tool '", tool_name, "'">>]

\* ToolRegistry.get_schemas: a literal list, independent of the counters
get_schemas ==
    <<[name |-> "web_search", properties |-> <<"query", "num_results">>,
       required |-> <<"query">>],
      [name |-> "web_scraper", properties |-> <<"url">>, required |-> <<"url">>]>>

reset(r) == [search_count |-> 0, scrape_count |-> 0]

----------------------------------------------------------------------------
(* AgentLoop helpers *)

\* AgentLoop._execute_tools, from block i on: acc carries the registry, the
\* results collected so far and the execute calls made so far.
RECURSIVE ExecuteFrom(_, _, _, _)
ExecuteFrom(content, envs, i, acc) ==
    IF i > Len(content) THEN acc
    ELSE IF ~IsToolUse(content[i]) THEN ExecuteFrom(content, envs, i + 1, acc)
    ELSE LET block == content[i]
             ex    == execute(acc.registry, block.name, block.input, envs[i])
             call  == [name |-> block.name, id |-> block.id]
         IN  IF ex.raised
             THEN [registry   |-> ex.registry,
                   results    |-> acc.results,
                   dispatched |-> Append(acc.dispatched, call),
                   raised     |-> TRUE]
             ELSE ExecuteFrom(content, envs, i + 1,
                     [registry   |-> ex.registry,
                      results    |-> Append(acc.results, ToolResult(block.id, ex.output)),
                      dispatched |-> Append(acc.dispatched, call),
                      raised     |-> FALSE])

_execute_tools(r, content, envs) ==
    ExecuteFrom(content, envs, 1,
        [registry |-> r, results |-> <<>>, dispatched |-> <<>>, raised |-> FALSE])

TextOf(block) == block.text

RECURSIVE TextsOf(_)
TextsOf(content) ==
    IF content = <<>> THEN <<>>
    ELSE IF HasText(Head(content)) /\ Head(content).text # <<>>
         THEN <<TextOf(Head(content))>> \o TextsOf(Tail(content))
         ELSE TextsOf(Tail(content))

_extract_text_unstripped(content) == JoinLines(TextsOf(content))

_extract_text(content) == Strip(JoinLines(TextsOf(content)))

ReturnValueNoFallback(text) == text

\* `answer or FALLBACK_MESSAGE`
ReturnValue(text) == IF text # <<>> THEN text ELSE FALLBACK_MESSAGE

InRangeOneMore(s) == s >= 1 /\ s < MAX_ITERATIONS + 2

\* for step in range(1, MAX_ITERATIONS + 1)
InRange(s) == s >= 1 /\ s < MAX_ITERATIONS + 1

CreateArgsPerStep(sys, m) ==
    [system   |-> IF is_followup(m) THEN FOLLOWUP_PROMPT ELSE RESEARCHER_PROMPT,
     tools    |-> get_schemas,
     messages |-> get_messages(m)]

\* keyword arguments of client.messages.create
CreateArgs(sys, m) ==
    [system |-> sys, tools |-> get_schemas, messages |-> get_messages(m)]

NoResponse == [stop_reason |-> "none", content |-> <<>>]

NoRequest == [system |-> "none", tools |-> <<>>, messages |-> <<>>]

----------------------------------------------------------------------------
(* What the model backend may return *)

Questions == {<<"q">>}

SearchInput == [query |-> "q"]

ScrapeInput == [url |-> HttpsPrefix \o <<"a">>]

PlainAnswers == {<<TextBlock(<<"a">>)>>}

UncommonAnswers ==
    { <<>>,
      <<TextBlock(<<>>)>>,
      <<TextBlock(<<" ">>)>>,
      <<TextBlock(<<" ", "a">>)>>,
      <<TextBlock(<<"a", "\n">>)>>,
      <<TextBlock(<<"a">>), TextBlock(<<"b">>)>> }

PlainToolContents == {<<ToolUseBlock("id1", "web_search", SearchInput)>>}

UncommonToolContents ==
    { <<TextBlock(<<"a">>), ToolUseBlock("id1", "web_search", SearchInput),
        ToolUseBlock("id2", "web_scraper", ScrapeInput)>>,
      <<ToolUseBlock("id2", "web_scraper", ScrapeInput),
        ToolUseBlock("id1", "web_search", SearchInput)>>,
      <<ToolUseBlock("id1", "calculator", NoInput)>>,
      <<TextBlock(<<"a">>)>> }

PlainOthers == {<<TextBlock(<<"a">>)>>}

UncommonOthers == {<<ToolUseBlock("id1", "web_search", SearchInput)>>}

OtherReasons == {"max_tokens"}

Envs(content) == [1..Len(content) -> {"ok", "fail"}]

Cost(content, plain) == IF content \in plain THEN 0 ELSE 1

----------------------------------------------------------------------------
(* An AgentLoop object as a value, and run / new_session as functions on it *)

\* AgentLoop.__init__ with the registry counters at r.  `log` lists the names
\* registry.execute was called with since the last reset.
Session(r) ==
    [memory |-> NewMemory, registry |-> r, pc |-> "idle", step |-> 0,
     system |-> "none", request |-> NoRequest, answer |-> <<>>,
     outcome |-> "none", log |-> <<>>]

NamesOf(calls_made) == [i \in 1..Len(calls_made) |-> calls_made[i].name]

\* entry of run
RunEntered(s, question) ==
    LET m == add_user_message(s.memory, question)
    IN  [s EXCEPT !.memory = m,
                  !.system = IF is_followup(m) THEN FOLLOWUP_PROMPT ELSE RESEARCHER_PROMPT,
                  !.pc = "loop", !.step = 1, !.request = NoRequest,
                  !.answer = <<>>, !.outcome = "none"]

\* one iteration of the for loop of run; reply is what messages.create does:
\* it raises, or returns a response (envs: how each tool's network call fares)
RunStepped(s, reply) ==
    LET t == [s EXCEPT !.request = CreateArgs(s.system, s.memory)]
    IN  IF reply.kind = "raise"
        THEN [t EXCEPT !.pc = "idle", !.outcome = "raised"]
        ELSE IF reply.stop_reason = "end_turn"
        THEN [t EXCEPT !.memory = add_assistant_message(s.memory, reply.content),
                       !.answer = ReturnValue(_extract_text(reply.content)),
                       !.outcome = "returned", !.pc = "idle"]
        ELSE IF reply.stop_reason = "tool_use"
        THEN LET saved == add_assistant_message(s.memory, reply.content)
                 ex    == _execute_tools(s.registry, reply.content, reply.envs)
             IN  IF ex.raised
                 THEN [t EXCEPT !.memory = saved, !.registry = ex.registry,
                                !.log = @ \o NamesOf(ex.dispatched),
                                !.pc = "idle", !.outcome = "raised"]
                 ELSE [t EXCEPT !.memory = add_tool_results(saved, ex.results),
                                !.registry = ex.registry,
                                !.log = @ \o NamesOf(ex.dispatched),
                                !.step = @ + 1]
        ELSE [t EXCEPT !.pc = "exit_loop"]

\* return FALLBACK_MESSAGE after the loop
RunExited(s) ==
    [s EXCEPT !.answer = FALLBACK_MESSAGE, !.outcome = "returned", !.pc = "idle"]

\* AgentLoop.new_session
SessionReset(s) ==
    [s EXCEPT !.memory = clear(s.memory), !.registry = reset(s.registry),
              !.log = <<>>, !.step = 0, !.system = "none", !.request = NoRequest,
              !.answer = <<>>, !.outcome = "none"]

\* what the caller can do next with s
CanRun(s) == s.pc = "idle"

CanStep(s) == s.pc = "loop" /\ InRange(s.step)

CanExit(s) == s.pc = "exit_loop" \/ (s.pc = "loop" /\ ~InRange(s.step))

TwinIdle ==
    [started |-> FALSE, a |-> Session(NewRegistry), b |-> Session(NewRegistry),
     runs |-> 0, replies |-> 0]

----------------------------------------------------------------------------
(* Initial state: AgentLoop.__init__ *)

NoResult == [kind |-> "none", reason |-> "none", out |-> <<>>, header |-> <<>>, cleaned |-> <<>>]

NoNet == [kind |-> "none"]

ScrapeIdle == [pc |-> "idle", url |-> <<>>, gets |-> 0, net |-> NoNet, result |-> NoResult]

SearchIdle ==
    [pc |-> "idle", query |-> "", num |-> 0, data |-> [none |-> "none"],
     posted |-> [none |-> "none"], raised |-> FALSE, out |-> <<>>]

Init ==
    /\ memory = NewMemory
    /\ registry = NewRegistry
    /\ pc = "idle"
    /\ step = 0
    /\ system = "none"
    /\ response = NoResponse
    /\ request = NoRequest
    /\ sentSystems = {}
    /\ calls = 0
    /\ entryLen = 0
    /\ dispatched = <<>>
    /\ outcome = "none"
    /\ answer = <<>>
    /\ ended = "none"
    /\ runs = 0
    /\ rich = 0
    /\ scr = ScrapeIdle
    /\ srch = SearchIdle
    /\ twin = TwinIdle

----------------------------------------------------------------------------
(* AgentLoop.run *)

\* Entry of run: record the question, choose the system prompt, enter the loop.
Run(question) ==
    /\ pc = "idle"
    /\ memory' = add_user_message(memory, question)
    /\ system' = IF is_followup(memory') THEN FOLLOWUP_PROMPT ELSE RESEARCHER_PROMPT
    /\ entryLen' = Len(memory.messages)
    /\ pc' = "loop"
    /\ step' = 1
    /\ response' = NoResponse
    /\ request' = NoRequest
    /\ sentSystems' = {}
    /\ calls' = 0
    /\ dispatched' = <<>>
    /\ outcome' = "none"
    /\ answer' = <<>>
    /\ ended' = "none"
    /\ runs' = runs + 1
    /\ UNCHANGED <<registry, rich>>
    /\ UNCHANGED toolVars

\* The messages.create call of one loop iteration.
Create ==
    /\ pc = "loop"
    /\ InRange(step)
    /\ request' = CreateArgs(system, memory)
    /\ sentSystems' = sentSystems \cup {request'.system}
    /\ calls' = calls + 1

\* messages.create raises: the fault leaves run.
CreateRaises ==
    /\ Create
    /\ pc' = "idle"
    /\ outcome' = "raised"
    /\ ended' = "backend_fault"
    /\ UNCHANGED <<memory, registry, step, system, response, entryLen,
                   dispatched, answer, runs, rich>>
    /\ UNCHANGED toolVars

\* stop_reason == "end_turn"
EndTurn(content, cost) ==
    /\ Create
    /\ rich + cost <= MaxRich
    /\ rich' = rich + cost
    /\ response' = [stop_reason |-> "end_turn", content |-> content]
    /\ memory' = add_assistant_message(memory, content)
    /\ answer' = ReturnValue(_extract_text(content))
    /\ outcome' = "returned"
    /\ ended' = "end_turn"
    /\ pc' = "idle"
    /\ dispatched' = <<>>
    /\ UNCHANGED <<registry, step, system, entryLen, runs>>
    /\ UNCHANGED toolVars

\* stop_reason == "tool_use"
ToolUse(content, envs, cost) ==
    /\ Create
    /\ rich + cost <= MaxRich
    /\ rich' = rich + cost
    /\ response' = [stop_reason |-> "tool_use", content |-> content]
    /\ LET saved == add_assistant_message(memory, content)
           ex    == _execute_tools(registry, content, envs)
       IN  /\ registry' = ex.registry
           /\ dispatched' = ex.dispatched
           /\ IF ex.raised
              THEN /\ memory' = saved
                   /\ pc' = "idle"
                   /\ outcome' = "raised"
                   /\ ended' = "action_fault"
                   /\ UNCHANGED step
              ELSE /\ memory' = add_tool_results(saved, ex.results)
                   /\ step' = step + 1
                   /\ UNCHANGED <<pc, outcome, ended>>
    /\ UNCHANGED <<system, entryLen, answer, runs>>
    /\ UNCHANGED toolVars

OtherStopContinues(reason, content, cost) ==
    /\ Create
    /\ rich + cost <= MaxRich
    /\ rich' = rich + cost
    /\ response' = [stop_reason |-> reason, content |-> content]
    /\ step' = step + 1
    /\ dispatched' = <<>>
    /\ UNCHANGED <<memory, registry, pc, system, entryLen, outcome, answer,
                   ended, runs>>
    /\ UNCHANGED toolVars

\* any other stop_reason: break
OtherStop(reason, content, cost) ==
    /\ Create
    /\ rich + cost <= MaxRich
    /\ rich' = rich + cost
    /\ response' = [stop_reason |-> reason, content |-> content]
    /\ pc' = "exit_loop"
    /\ dispatched' = <<>>
    /\ UNCHANGED <<memory, registry, step, system, entryLen, outcome, answer,
                   ended, runs>>
    /\ UNCHANGED toolVars

\* return FALLBACK_MESSAGE after the loop (range exhausted, or break)
ReturnFallback ==
    /\ \/ pc = "exit_loop"
       \/ pc = "loop" /\ ~InRange(step)
    /\ answer' = FALLBACK_MESSAGE
    /\ outcome' = "returned"
    /\ ended' = IF pc = "exit_loop" THEN "break" ELSE "exhausted"
    /\ pc' = "idle"
    /\ UNCHANGED <<memory, registry, step, system, response, request, sentSystems,
                   calls, entryLen, dispatched, runs, rich>>
    /\ UNCHANGED toolVars

\* AgentLoop.new_session; the locals and the result of the last run are gone.
NewSession ==
    /\ pc = "idle"
    /\ memory' = clear(memory)
    /\ registry' = reset(registry)
    /\ step' = 0
    /\ system' = "none"
    /\ response' = NoResponse
    /\ request' = NoRequest
    /\ sentSystems' = {}
    /\ calls' = 0
    /\ entryLen' = 0
    /\ dispatched' = <<>>
    /\ outcome' = "none"
    /\ answer' = <<>>
    /\ ended' = "none"
    /\ UNCHANGED <<pc, runs, rich>>
    /\ UNCHANGED toolVars

----------------------------------------------------------------------------
(* A session: several run and new_session calls, common backend responses *)

Next ==
    \/ \E q \in Questions : runs < MaxRuns /\ Run(q)
    \/ NewSession
    \/ CreateRaises
    \/ \E c \in PlainAnswers : EndTurn(c, 0)
    \/ \E c \in PlainToolContents : \E e \in Envs(c) : ToolUse(c, e, 0)
    \/ \E r \in OtherReasons : \E c \in PlainOthers : OtherStop(r, c, 0)
    \/ ReturnFallback

Spec == Init /\ [][Next]_vars

(* One run on a fresh session, every kind of backend response *)

NextRich ==
    \/ \E q \in Questions : runs = 0 /\ Run(q)
    \/ CreateRaises
    \/ \E c \in PlainAnswers \cup UncommonAnswers : EndTurn(c, Cost(c, PlainAnswers))
    \/ \E c \in PlainToolContents \cup UncommonToolContents :
          \E e \in Envs(c) : ToolUse(c, e, Cost(c, PlainToolContents))
    \/ \E r \in OtherReasons : \E c \in PlainOthers \cup UncommonOthers :
          OtherStop(r, c, Cost(c, PlainOthers))
    \/ ReturnFallback

SpecRich == Init /\ [][NextRich]_vars

----------------------------------------------------------------------------
(* One WebScraper.scrape call, any URL and any answer of the site *)

MaxTextLen == 3

Alphabet == {"a", " ", "\n", "\t"}

ShortTexts == UNION {[1..k -> Alphabet] : k \in 0..MaxTextLen}

\* texts around the MAX_CHARS budget: just below, at and above it, one that is
\* above it only before normalisation, one with a space at the cut; and a
\* text with a run of three spaces
LongTexts ==
    { [i \in 1..(MAX_CHARS - 1) |-> "x"],
      [i \in 1..MAX_CHARS |-> "x"],
      [i \in 1..(MAX_CHARS + 1) |-> "x"],
      <<" ", " ">> \o [i \in 1..(MAX_CHARS - 1) |-> "x"],
      <<"a", " ", " ", " ", "b">>,
      [i \in 1..(MAX_CHARS + 2) |-> IF i = MAX_CHARS THEN " " ELSE "x"] }

Urls ==
    { <<>>,
      <<"a">>,
      <<"h", "t", "t", "p", "x">>,
      <<"f", "t", "p", ":", "/", "/", "a">>,
      <<"H", "T", "T", "P", ":", "/", "/", "a">>,
      HttpPrefix \o <<"a">>,
      HttpsPrefix \o <<"a">> }

Pages ==
    {[has_main |-> FALSE, raw |-> <<>>, has_title |-> FALSE, title |-> <<>>]}
    \cup {[has_main |-> TRUE, raw |-> r, has_title |-> FALSE, title |-> <<>>] :
             r \in ShortTexts \cup LongTexts}
    \cup {[has_main |-> TRUE, raw |-> r, has_title |-> TRUE, title |-> t] :
             r \in ShortTexts \cup LongTexts, t \in {<<"T">>, <<" ", "T", "\n">>}}

ContentTypes ==
    {<<"text/html">>, <<"text/html", "; charset=utf-8">>, <<"application/pdf">>, <<>>}

MaxElements == 2

Element(tag, id, class, style, text) ==
    [tag |-> tag, id |-> id, class |-> class, style |-> style, text |-> text]

\* style attributes: hidden as the regex spells it, with a blank after the
\* colon, in other letter cases, and not hidden
Styles ==
    { <<"d", "i", "s", "p", "l", "a", "y", ":", "n", "o", "n", "e">>,
      <<"d", "i", "s", "p", "l", "a", "y", ":", " ", "n", "o", "n", "e">>,
      <<"D", "I", "S", "P", "L", "A", "Y", ":", "N", "O", "N", "E">>,
      <<"v", "i", "s", "i", "b", "i", "l", "i", "t", "y", ":", "h", "i", "d", "d", "e", "n">>,
      <<"V", "i", "s", "i", "b", "i", "l", "i", "t", "y", ":", "H", "i", "d", "d", "e", "n">>,
      <<"c", "o", "l", "o", "r", ":", "r", "e", "d">> }

\* the text "z" is that of the styled elements only
Elements ==
    { Element("article", "", <<>>, <<>>, <<"A">>),
      Element("main", "", <<>>, <<>>, <<"M">>),
      Element("div", "content", <<>>, <<>>, <<"I">>),
      Element("div", "Content", <<>>, <<>>, <<"J">>),
      Element("div", "", <<"P", "o", "s", "t">>, <<>>, <<"C">>),
      Element("div", "", <<"s", "i", "d", "e">>, <<>>, <<"p">>),
      Element("nav", "", <<>>, <<>>, <<"n">>),
      Element("article", "", <<>>, <<"d", "i", "s", "p", "l", "a", "y", ":", "n", "o", "n", "e">>, <<"z">>) }
    \cup {Element("div", "", <<>>, st, <<"z">>) : st \in Styles}

Documents ==
    {[has_body |-> b, elements |-> els] :
        b \in BOOLEAN, els \in UNION {[1..k -> Elements] : k \in 0..MaxElements}}

ScrapeNets ==
    {[kind |-> "timeout"], [kind |-> "connection"], [kind |-> "other"]}
    \cup {[kind |-> "http", status |-> st] : st \in {403, 404, 500}}
    \cup {[kind |-> "ok", content_type |-> ct, page |-> pg] :
             ct \in ContentTypes, pg \in Pages}
    \cup {[kind |-> "ok", content_type |-> <<"text/html">>, page |-> Parse(d), doc |-> d] :
             d \in Documents}

\* scrape, step 1: validate the URL; an invalid one ends the call at once
ScrapeBegin(url) ==
    /\ scr.pc = "idle"
    /\ scr' = IF ValidUrl(url)
              THEN [pc |-> "get", url |-> url, gets |-> 0, net |-> NoNet,
                    result |-> NoResult]
              ELSE [pc |-> "done", url |-> url, gets |-> ScrapeWith(url, NoNet).gets,
                    net |-> NoNet, result |-> ScrapeWith(url, NoNet).result]
    /\ UNCHANGED <<agentVars, srch, twin>>

\* scrape, steps 2 to 10: requests.get answers (or fails) and the call ends
ScrapeGet(net) ==
    /\ scr.pc = "get"
    /\ scr' = [pc |-> "done", url |-> scr.url,
               gets |-> scr.gets + ScrapeWith(scr.url, net).gets,
               net |-> net, result |-> ScrapeWith(scr.url, net).result]
    /\ UNCHANGED <<agentVars, srch, twin>>

NextScrape ==
    \/ \E url \in Urls : ScrapeBegin(url)
    \/ \E net \in ScrapeNets : ScrapeGet(net)

SpecScrape == Init /\ [][NextScrape]_vars

----------------------------------------------------------------------------
(* One WebSearch.search_and_format call, any answer of the backend *)

MaxOrganic == 2

EntryKinds ==
    { [title |-> "t1", link |-> "u1", snippet |-> "s1"],
      [title |-> "t2", link |-> "u2"],
      [title |-> "t3", snippet |-> "s3"],
      [link |-> "u4", snippet |-> "s4"],
      [title |-> "", link |-> "", snippet |-> ""] }

OrganicLists == UNION {[1..k -> EntryKinds] : k \in 0..MaxOrganic}

AnswerBoxes == {[answer |-> "x"], [answer |-> ""], [title |-> "y"]}

SearchData ==
    {[answerBox |-> b, organic |-> o] : b \in AnswerBoxes, o \in OrganicLists}
    \cup {[organic |-> o] : o \in OrganicLists}
    \cup {[answerBox |-> b] : b \in AnswerBoxes}
    \cup {[searchParameters |-> "q"]}
    \cup {[organic |-> [i \in 1..n |-> [title |-> "t1", link |-> "u1", snippet |-> "s1"]]] :
             n \in {10, 11}}

\* values around the list lengths, the default 5 and the documented maximum 10
NumResults == (0 - 1)..(MaxOrganic + 1) \cup {5, 10, 11}

SearchNets ==
    {[kind |-> "http", status |-> 500], [kind |-> "connection"]}
    \cup {[kind |-> "ok", data |-> d] : d \in SearchData}

Search(query, num_results, net) ==
    /\ srch.pc = "idle"
    /\ LET r == SearchWith(query, num_results, net)
       IN  srch' = [pc |-> "done", query |-> query, num |-> num_results,
                    data |-> IF net.kind = "ok" THEN net.data ELSE [none |-> "none"],
                    posted |-> r.posted, raised |-> r.raised, out |-> r.output]
    /\ UNCHANGED <<agentVars, scr, twin>>

NextSearch ==
    \E num_results \in NumResults : \E net \in SearchNets : Search("q", num_results, net)

SpecSearch == Init /\ [][NextSearch]_vars

----------------------------------------------------------------------------
(* Two sessions that differ only in their counters, fed the same questions, *)
(* backend replies and tool outcomes                                        *)

MaxTwinReplies == 4

TwinToolContents ==
    { <<ToolUseBlock("id1", "web_search", SearchInput)>>,
      <<ToolUseBlock("id2", "web_scraper", ScrapeInput),
        ToolUseBlock("id1", "web_search", SearchInput)>>,
      <<ToolUseBlock("id1", "calculator", NoInput)>> }

CounterValues ==
    {[search_count |-> 1, scrape_count |-> 0], [search_count |-> 0, scrape_count |-> 2]}

Reply(stop_reason, content, envs) ==
    [kind |-> "response", stop_reason |-> stop_reason, content |-> content, envs |-> envs]

Raise == [kind |-> "raise", stop_reason |-> "none", content |-> <<>>, envs |-> <<>>]

\* the second AgentLoop object is given other counter values
TwinStart(r) ==
    /\ ~twin.started
    /\ twin' = [twin EXCEPT !.started = TRUE, !.b = Session(r)]
    /\ UNCHANGED <<agentVars, scr, srch>>

\* both objects get the same run(question) call
TwinRun(question) ==
    /\ twin.started
    /\ twin.runs < MaxRuns
    /\ CanRun(twin.a)
    /\ twin' = [twin EXCEPT !.a = RunEntered(@, question),
                            !.b = IF CanRun(@) THEN RunEntered(@, question) ELSE @,
                            !.runs = @ + 1]
    /\ UNCHANGED <<agentVars, scr, srch>>

\* both objects get the same reply to their next messages.create call
TwinReply(reply) ==
    /\ twin.started
    /\ CanStep(twin.a)
    /\ twin.replies < MaxTwinReplies
    /\ twin' = [twin EXCEPT !.a = RunStepped(@, reply),
                            !.b = IF CanStep(@) THEN RunStepped(@, reply) ELSE @,
                            !.replies = @ + 1]
    /\ UNCHANGED <<agentVars, scr, srch>>

TwinCreateRaises == TwinReply(Raise)

TwinEndTurn(content) == TwinReply(Reply("end_turn", content, <<>>))

TwinToolUse(content, envs) == TwinReply(Reply("tool_use", content, envs))

TwinOtherStop(reason, content) == TwinReply(Reply(reason, content, <<>>))

TwinReturnFallback ==
    /\ twin.started
    /\ CanExit(twin.a)
    /\ twin' = [twin EXCEPT !.a = RunExited(@),
                            !.b = IF CanExit(@) THEN RunExited(@) ELSE @]
    /\ UNCHANGED <<agentVars, scr, srch>>

TwinNewSession ==
    /\ twin.started
    /\ CanRun(twin.a)
    /\ twin' = [twin EXCEPT !.a = SessionReset(@),
                            !.b = IF CanRun(@) THEN SessionReset(@) ELSE @]
    /\ UNCHANGED <<agentVars, scr, srch>>

NextTwin ==
    \/ \E r \in CounterValues : TwinStart(r)
    \/ \E q \in Questions : TwinRun(q)
    \/ TwinCreateRaises
    \/ \E c \in PlainAnswers : TwinEndTurn(c)
    \/ \E c \in TwinToolContents : \E e \in Envs(c) : TwinToolUse(c, e)
    \/ \E r \in OtherReasons : \E c \in PlainOthers : TwinOtherStop(r, c)
    \/ TwinReturnFallback
    \/ TwinNewSession

SpecTwin == Init /\ [][NextTwin]_vars

TypeOK ==
    /\ pc \in {"idle", "loop", "exit_loop"}
    /\ step \in 0..(MAX_ITERATIONS + 1)
    /\ outcome \in {"none", "returned", "raised"}
    /\ runs \in 0..(MaxRuns + 1)
    /\ rich \in 0..(MaxRich + 1)
    /\ scr.pc \in {"idle", "get", "done"}
    /\ scr.gets \in 0..1
    /\ srch.pc \in {"idle", "done"}
    /\ twin.a.pc \in {"idle", "loop", "exit_loop"}
    /\ twin.runs \in 0..(MaxRuns + 1)
    /\ twin.replies \in 0..MaxTwinReplies

----------------------------------------------------------------------------
(* Properties *)

Msgs == memory.messages

LastMsg == Msgs[Len(Msgs)]

ToolUsesOf(content) == SelectSeq(content, IsToolUse)

\* C1: the transcript's turns strictly alternate user/assistant and the first
\* turn, if any, is a user turn, after any sequence of run and new_session calls.
C1_TurnsAlternate ==
    \A i \in 1..Len(Msgs) :
        /\ i = 1 => Msgs[i].role = "user"
        /\ i > 1 => Msgs[i].role # Msgs[i - 1].role

\* C2: every tool-results turn directly follows an assistant turn holding at
\* least one tool_use block, and no tool-results turn is empty.
C2_ObservationsAnswerRequests ==
    \A i \in 1..Len(Msgs) :
        Msgs[i].kind = "tool_results" =>
            /\ i > 1
            /\ Msgs[i - 1].role = "assistant"
            /\ ToolUsesOf(Msgs[i - 1].content) # <<>>
            /\ Msgs[i].content # <<>>

\* C3: a run makes at most 10 backend calls; a run whose 10 steps were all
\* tool requests returns the fallback message after exactly 10 calls.
C3_AtMostTenCalls ==
    /\ calls <= 10
    /\ ended = "exhausted" =>
          /\ calls = 10
          /\ outcome = "returned"
          /\ answer = FALLBACK_MESSAGE
    /\ (pc = "idle" /\ outcome = "returned" /\ Len(Msgs) - entryLen = 21) =>
          /\ ended = "exhausted"
          /\ calls = 10

C3_Witness ==
    /\ ended = "exhausted"
    /\ calls = 10
    /\ Len(Msgs) - entryLen = 21
    /\ answer = FALLBACK_MESSAGE

\* The transcript of a run that answered after `calls` backend calls on an empty
\* session: question, (tool request, tool results) x (calls - 1), answer.
C4_Case(T) ==
    /\ ended = "end_turn"
    /\ entryLen = 0
    /\ T # <<>>
    /\ response.content = <<TextBlock(T)>>

C4_Shape ==
    /\ calls - 1 \in 0..9
    /\ Len(Msgs) = 2 * (calls - 1) + 2
    /\ Msgs[1].kind = "question"
    /\ \A j \in 1..(calls - 1) :
          /\ Msgs[2 * j].role = "assistant"
          /\ Msgs[2 * j + 1].kind = "tool_results"
    /\ LastMsg.role = "assistant"
    /\ LastMsg.content = response.content
    /\ (calls = 2 /\ Msgs[2].content = <<ToolUseBlock("id1", "web_search", SearchInput)>>) =>
          /\ registry.search_count = 1
          /\ registry.scrape_count = 0
          /\ Len(Msgs) = 4

C4_Texts == {<<"a">>, <<" ", "a">>, <<"a", "\n">>, <<" ">>}

C4_Trimmed(T, out) ==
    IF \A n \in 1..Len(T) : IsSpace(T[n])
    THEN out = FALLBACK_MESSAGE
    ELSE \E i \in 1..Len(T) : \E j \in i..Len(T) :
            /\ out = SubSeq(T, i, j)
            /\ ~IsSpace(T[i])
            /\ ~IsSpace(T[j])
            /\ \A n \in 1..Len(T) : (n < i \/ n > j) => IsSpace(T[n])

C5_EveryRequestAnswered ==
    response.stop_reason = "tool_use" =>
        LET reqs == ToolUsesOf(response.content)
        IN  /\ Len(dispatched) = Len(reqs)
            /\ \A i \in 1..Len(reqs) :
                  /\ dispatched[i].id = reqs[i].id
                  /\ dispatched[i].name = reqs[i].name
            /\ Len(Msgs) > 0
            /\ LastMsg.kind = "tool_results"
            /\ Len(LastMsg.content) = Len(reqs)
            /\ \A i \in 1..Len(reqs) : LastMsg.content[i].id = reqs[i].id

\* C6: a failing search or fetch never makes run raise.
C6_ActionFailureNeverRaises ==
    ended # "action_fault"

\* C7: run never returns the empty string; an end_turn response without a
\* non-empty text block is recorded as an assistant turn and run returns the
\* fallback message.
C7_NeverReturnsEmpty ==
    /\ outcome = "returned" => answer # <<>>
    /\ (/\ ended = "end_turn"
        /\ \A i \in 1..Len(response.content) :
              ~(HasText(response.content[i]) /\ response.content[i].text # <<>>)) =>
          /\ answer = FALLBACK_MESSAGE
          /\ LastMsg.role = "assistant"
          /\ LastMsg.content = response.content

C7_Witness ==
    /\ ended = "end_turn"
    /\ response.content = <<TextBlock(<<>>)>>
    /\ outcome = "returned"
    /\ answer = FALLBACK_MESSAGE
    /\ LastMsg.role = "assistant"

IsOtherSignal == response.stop_reason \notin {"none", "end_turn", "tool_use"}

\* C8: after a stop_reason other than end_turn and tool_use the run makes no
\* further backend call, executes no tool and returns the fallback message,
\* the same value an exhausted run returns.
C8_OtherSignalAborts ==
    /\ [](IsOtherSignal =>
             /\ dispatched = <<>>
             /\ \/ pc = "exit_loop"
                \/ /\ pc = "idle"
                   /\ ended = "break"
                   /\ outcome = "returned"
                   /\ answer = FALLBACK_MESSAGE)
    /\ [](ended = "exhausted" => answer = FALLBACK_MESSAGE)
    /\ [][pc = "exit_loop" =>
             /\ pc' = "idle"
             /\ calls' = calls
             /\ registry' = registry
             /\ memory' = memory]_vars

C8_Witness ==
    /\ ended = "break"
    /\ calls = 2
    /\ ToolUsesOf(response.content) # <<>>
    /\ registry.search_count = 1
    /\ answer = FALLBACK_MESSAGE

C10_OnePromptPerRun ==
    \A s \in sentSystems :
        s = IF \E i \in 1..entryLen : Msgs[i].role = "assistant"
            THEN FOLLOWUP_PROMPT
            ELSE RESEARCHER_PROMPT

C10_Witness ==
    /\ calls >= 2
    /\ is_followup(memory)
    /\ entryLen = 0
    /\ sentSystems = {RESEARCHER_PROMPT}
    /\ request.system = RESEARCHER_PROMPT

IsPrefix(a, b) == Len(a) <= Len(b) /\ SubSeq(b, 1, Len(a)) = a

\* a step taken while no run is in progress that starts no run: new_session
IsResetStep == pc = "idle" /\ pc' = "idle"

\* C11: new_session leaves the transcript empty, is_followup false and both
\* tool counters at zero; the tool schemas sent to the backend are the same
\* before and after it; the first run after a reset uses the researcher prompt
\* whatever happened before the reset.
C11_ResetClearsSession ==
    /\ [][IsResetStep =>
            /\ memory'.messages = <<>>
            /\ ~is_followup(memory')
            /\ registry'.search_count = 0
            /\ registry'.scrape_count = 0]_vars
    /\ [][(pc = "idle" /\ pc' = "loop" /\ Msgs = <<>>) =>
            system' = RESEARCHER_PROMPT]_vars
    /\ [](request # NoRequest => request.tools = get_schemas)

C11_Witness ==
    /\ runs = 2
    /\ entryLen = 0
    /\ pc = "loop"
    /\ calls = 1
    /\ request.system = RESEARCHER_PROMPT
    /\ request.tools = get_schemas
    /\ registry.search_count = 1
    /\ registry.scrape_count = 0

\* C12: every backend request carries the whole transcript as it stands at
\* the call; an assistant turn holds exactly the content the backend
\* returned; except for new_session, a step only appends to the transcript.
C12_FullTranscriptReplayed ==
    /\ [][calls' = calls + 1 => request'.messages = Msgs]_vars
    /\ [](IsPrefix(request.messages, Msgs))
    /\ [][(/\ calls' = calls + 1
           /\ ended' # "backend_fault"
           /\ response'.stop_reason \in {"end_turn", "tool_use"}) =>
             /\ Len(memory'.messages) > Len(Msgs)
             /\ memory'.messages[Len(Msgs) + 1] =
                  [role |-> "assistant", kind |-> "content",
                   content |-> response'.content]]_vars
    /\ [][IsResetStep \/ IsPrefix(Msgs, memory'.messages)]_vars

C12_Witness ==
    /\ pc = "loop"
    /\ calls = 2
    /\ entryLen = 2
    /\ Len(request.messages) = 5
    /\ Len(Msgs) = 7
    /\ request.messages = SubSeq(Msgs, 1, 5)
    /\ request.messages[4].role = "assistant"
    /\ ToolUsesOf(request.messages[4].content) # <<>>
    /\ Msgs[6].content = response.content
    /\ response.stop_reason = "tool_use"

Registered == {"web_search", "web_scraper"}

UnknownNames == {"calculator", "", "WEB_SEARCH", "web_search "}

\* the block requests tools, none of them registered
OnlyUnknownTools(content) ==
    /\ ToolUsesOf(content) # <<>>
    /\ \A i \in 1..Len(content) :
          IsToolUse(content[i]) => content[i].name \notin Registered

\* C13: execute with a name other than web_search and web_scraper returns a
\* string containing that name, raises nothing, runs no tool (the network
\* plays no part in the result) and leaves both counters unchanged.
C13_UnknownToolReported ==
    /\ [](\A n \in UnknownNames : \A env \in {"ok", "fail"} :
            LET ex == execute(registry, n, SearchInput, env)
            IN  /\ ex.registry = registry
                /\ ~ex.raised
                /\ \E i \in 1..Len(ex.output) : ex.output[i] = n
                /\ ex = execute(registry, n, SearchInput, "ok"))
    /\ [][(/\ calls' = calls + 1
           /\ ended' # "backend_fault"
           /\ response'.stop_reason = "tool_use"
           /\ OnlyUnknownTools(response'.content)) =>
             /\ registry' = registry
             /\ outcome' # "raised"
             /\ LET last == memory'.messages[Len(memory'.messages)]
                    uses == ToolUsesOf(response'.content)
                IN  /\ last.kind = "tool_results"
                    /\ Len(last.content) = Len(uses)
                    /\ \A k \in 1..Len(uses) :
                          \E i \in 1..Len(last.content[k].text) :
                             last.content[k].text[i] = uses[k].name]_vars

C13_Witness ==
    /\ pc = "loop"
    /\ calls = 2
    /\ response.stop_reason = "tool_use"
    /\ OnlyUnknownTools(response.content)
    /\ LastMsg.kind = "tool_results"
    /\ LastMsg.content[1].text = <<"Error: Unknown tool '", "calculator", "'">>
    /\ registry.search_count = 1

BeginsWithScheme(url) == StartsWith(url, HttpPrefix) \/ StartsWith(url, HttpsPrefix)

\* C14: a URL that begins with neither http:// nor https:// ends the scrape in
\* Failed(invalid_url) without a GET; every scrape issues at most one GET and
\* ends in exactly one outcome, Ok or Failed, which nothing changes afterwards.
C14_InvalidUrlNoRequest ==
    /\ [](scr.pc = "done" /\ ~BeginsWithScheme(scr.url) =>
            /\ scr.result.kind = "Failed"
            /\ scr.result.reason = "invalid_url"
            /\ scr.gets = 0)
    /\ [](scr.gets <= 1)
    /\ [](scr.pc = "done" <=> scr.result.kind \in {"Ok", "Failed"})
    /\ [][scr.pc = "get" => scr'.pc = "done" /\ scr'.gets = 1]_vars
    /\ [][scr.pc = "done" => scr' = scr]_vars

C14_Witness ==
    /\ scr.pc = "done"
    /\ scr.url = <<"h", "t", "t", "p", "x">>
    /\ scr.result.kind = "Failed"
    /\ scr.result.reason = "invalid_url"
    /\ scr.gets = 0

\* C15: a successful scrape returns at most header + 3000 + marker characters;
\* the normalized text is cut at 3000 and the marker appended exactly when it is
\* longer than 3000, and a text of at most 3000 characters follows the header
\* whole, without marker.
C15_OutputBounded ==
    scr.result.kind = "Ok" =>
        LET r == scr.result
        IN  /\ Len(r.out) <= Len(r.header) + 3000 + Len(TruncationMarker)
            /\ IsPrefix(r.header, r.out)
            /\ Len(r.cleaned) > 3000 =>
                  r.out = r.header \o SubSeq(r.cleaned, 1, 3000) \o TruncationMarker
            /\ Len(r.cleaned) <= 3000 => r.out = r.header \o r.cleaned

C15_Witness ==
    /\ scr.result.kind = "Ok"
    /\ Len(scr.result.cleaned) = 3001
    /\ Len(scr.result.out) = Len(scr.result.header) + 3000 + Len(TruncationMarker)

\* C16 as stated: _clean_text applied to the string a successful scrape
\* returns yields that same string.
C16_OutputIsFixedPoint ==
    scr.result.kind = "Ok" => _clean_text(scr.result.out) = scr.result.out

\* C16, amended: the normalized body of a successful scrape (the text before
\* the header is put in front and the truncation marker behind) is a fixed
\* point of _clean_text.
C16_BodyIsFixedPoint ==
    scr.result.kind = "Ok" => _clean_text(scr.result.cleaned) = scr.result.cleaned

C16_Witness ==
    /\ scr.result.kind = "Ok"
    /\ scr.net.page.raw = <<"a", " ", " ", " ", "b">>
    /\ scr.result.cleaned = <<"a", " ", "b">>
    /\ _clean_text(scr.result.cleaned) = scr.result.cleaned
    /\ _clean_text(scr.result.out) # scr.result.out

\* the numbered entries of a formatted search output, in order
EntriesIn(out) ==
    LET IsStart(i) == out[i] = "Result "
        starts     == SelectSeq([i \in 1..Len(out) |-> i], IsStart)
    IN  [j \in 1..Len(starts) |->
            [number  |-> out[starts[j] + 1],
             title   |-> out[starts[j] + 4],
             snippet |-> out[starts[j] + 7],
             link    |-> out[starts[j] + 10]]]

Organic(data) == IF "organic" \in DOMAIN data THEN data.organic ELSE <<>>

\* E lists exactly the backend entries at the positions P, in order, each
\* under its position number with its title, summary and URL
ListsPositions(E, P, results) ==
    /\ Len(E) = Cardinality(P)
    /\ \A j \in 1..Len(E) :
          LET k == CHOOSE k \in P : Cardinality({m \in P : m < k}) = j - 1
          IN  E[j] = [number  |-> ToString(k),
                      title   |-> Get(results[k], "title", ""),
                      snippet |-> Get(results[k], "snippet", ""),
                      link    |-> Get(results[k], "link", "")]

\* how many leading entries data["organic"][:num_results] holds
SliceCount(num_results, n) ==
    IF num_results >= 0
    THEN (IF num_results < n THEN num_results ELSE n)
    ELSE (IF n + num_results > 0 THEN n + num_results ELSE 0)

Searched == srch.pc = "done" /\ ~srch.raised

\* C17 as stated: at most num_results entries are emitted, from the first
\* num_results backend entries in order; an entry is skipped when it misses
\* both title and URL, every other one is emitted.
C17_SkipsEntriesMissingBoth ==
    Searched =>
        LET results == Organic(srch.data)
            first   == IF srch.num < 0 THEN 0
                       ELSE IF srch.num < Len(results) THEN srch.num
                       ELSE Len(results)
            P == {k \in 1..first : ~(/\ Get(results[k], "title", "") = ""
                                     /\ Get(results[k], "link", "") = "")}
        IN  /\ Len(EntriesIn(srch.out)) <= first
            /\ ListsPositions(EntriesIn(srch.out), P, results)

\* C17, amended: the entries are taken in order from data["organic"][:num_results]
\* (the first num_results entries, or all but the last -num_results when
\* num_results is negative); an entry is skipped when it misses its title or
\* its URL, every other one is emitted under its position in the backend list
\* with its title, summary and URL.
C17_SkipsEntriesMissingEither ==
    Searched =>
        LET results == Organic(srch.data)
            first   == SliceCount(srch.num, Len(results))
            P == {k \in 1..first : /\ Get(results[k], "title", "") # ""
                                   /\ Get(results[k], "link", "") # ""}
        IN  /\ Len(EntriesIn(srch.out)) <= first
            /\ ListsPositions(EntriesIn(srch.out), P, results)

C17_Witness ==
    /\ Searched
    /\ srch.num = 2
    /\ Organic(srch.data) = <<[title |-> "t3", snippet |-> "s3"],
                              [title |-> "t1", link |-> "u1", snippet |-> "s1"]>>
    /\ EntriesIn(srch.out) =
          <<[number |-> "2", title |-> "t1", snippet |-> "s1", link |-> "u1"]>>

HasDirectAnswer(data) ==
    "answerBox" \in DOMAIN data /\ Get(data.answerBox, "answer", "") # ""

Survivors(data, num_results) ==
    {k \in 1..SliceCount(num_results, Len(Organic(data))) :
        /\ Get(Organic(data)[k], "title", "") # ""
        /\ Get(Organic(data)[k], "link", "") # ""}

\* C18: the output is "No results found." exactly when the backend gave no
\* non-empty direct answer and no entry survived the filter; otherwise it is
\* non-empty, and a DIRECT ANSWER line, present exactly when the backend gave
\* a non-empty answer, comes first, before every numbered entry.
C18_NoResultsExactlyWhenEmpty ==
    Searched =>
        LET out == srch.out
            direct == {i \in 1..Len(out) : out[i] = "DIRECT ANSWER: "}
            starts == {i \in 1..Len(out) : out[i] = "Result "}
        IN  /\ out = NoResultsText <=>
                  /\ ~HasDirectAnswer(srch.data)
                  /\ Survivors(srch.data, srch.num) = {}
            /\ out # NoResultsText =>
                  /\ out # <<>>
                  /\ direct = IF HasDirectAnswer(srch.data) THEN {1} ELSE {}
                  /\ \A d \in direct : \A e \in starts : d < e
                  /\ HasDirectAnswer(srch.data) =>
                        out[2] = Get(srch.data.answerBox, "answer", "")

C18_Witness ==
    /\ Searched
    /\ srch.out = NoResultsText
    /\ "answerBox" \in DOMAIN srch.data
    /\ Len(Organic(srch.data)) = 2
    /\ srch.num = 2

\* the tool_use blocks of turn i are answered, one result per block with the
\* block's id, by the turn right after it
AnsweredAt(i) ==
    LET reqs == ToolUsesOf(Msgs[i].content)
    IN  /\ i < Len(Msgs)
        /\ Msgs[i + 1].kind = "tool_results"
        /\ Len(Msgs[i + 1].content) = Len(reqs)
        /\ \A k \in 1..Len(reqs) : Msgs[i + 1].content[k].id = reqs[k].id

\* C19: whenever no run is in progress (a run has returned or raised), every
\* assistant turn of the transcript holding tool_use blocks is directly
\* followed by a tool-results turn with one result per block, ids matching.
C19_NoRequestLeftUnanswered ==
    pc = "idle" =>
        \A i \in 1..Len(Msgs) :
            (Msgs[i].role = "assistant" /\ ToolUsesOf(Msgs[i].content) # <<>>) =>
                AnsweredAt(i)

\* an assistant turn of the transcript's first n turns that requests no tool:
\* the answer recorded by an end_turn response
AnsweredWithin(n) ==
    \E i \in 1..n : Msgs[i].role = "assistant" /\ ToolUsesOf(Msgs[i].content) = <<>>

\* C20: between runs, is_followup() is true exactly when the session holds a
\* completed question-to-answer exchange; a run entered after runs that recorded only
\* tool_use turns gets the researcher prompt.
C20_FollowupOnlyAfterAnswer ==
    /\ pc = "idle" => (is_followup(memory) <=> AnsweredWithin(Len(Msgs)))
    /\ (pc = "loop" /\ ~AnsweredWithin(entryLen)) => system = RESEARCHER_PROMPT

\* everything of an AgentLoop object but its counters (and the record of the
\* execute calls): transcript, position in run, prompt, last request, result
Observable(s) ==
    [memory |-> s.memory, pc |-> s.pc, step |-> s.step, system |-> s.system,
     request |-> s.request, answer |-> s.answer, outcome |-> s.outcome]

\* C21: two sessions that differ only in their counter values and get the
\* same questions, backend replies and tool outcomes send the same requests,
\* hold the same transcript and return (or raise) alike, step by step.
C21_CountersNeverSteer ==
    twin.started => Observable(twin.a) = Observable(twin.b)

C21_Witness ==
    /\ twin.started
    /\ twin.a.registry = [search_count |-> 2, scrape_count |-> 1]
    /\ twin.b.registry = [search_count |-> 3, scrape_count |-> 1]
    /\ twin.a.outcome = "returned"
    /\ twin.b.outcome = "returned"
    /\ twin.a.request # NoRequest
    /\ twin.a.request = twin.b.request
    /\ Len(twin.a.memory.messages) = 6
    /\ twin.a.memory = twin.b.memory

Count(name, names) == Cardinality({i \in 1..Len(names) : names[i] = name})

\* C22: of an object constructed with zero counters, each counter equals the
\* number of execute calls made with its tool's name since the last reset,
\* failed executions included; execute with a registered name adds one to
\* that name's counter and leaves the other one alone, whether or not the
\* tool fails.
C22_CountersCountDispatches ==
    /\ twin.a.registry.search_count = Count("web_search", twin.a.log)
    /\ twin.a.registry.scrape_count = Count("web_scraper", twin.a.log)
    /\ \A env \in {"ok", "fail"} :
          /\ execute(twin.b.registry, "web_search", SearchInput, env).registry =
                [twin.b.registry EXCEPT !.search_count = @ + 1]
          /\ execute(twin.b.registry, "web_scraper", ScrapeInput, env).registry =
                [twin.b.registry EXCEPT !.scrape_count = @ + 1]

C22_Witness ==
    /\ twin.a.outcome = "raised"
    /\ twin.a.log = <<"web_search", "web_scraper", "web_search">>
    /\ twin.a.registry = [search_count |-> 2, scrape_count |-> 1]
    /\ Len(twin.a.memory.messages) = 4
    /\ twin.runs = 1

\* C23: a search never posts a `num` above 10 to the search backend and never
\* returns more than 10 entries, whatever num_results it is called with.
C23_AtMostTenResults ==
    /\ srch.pc = "done" => srch.posted.num <= 10
    /\ Searched => Len(EntriesIn(srch.out)) <= 10

\* a scrape that got an HTML document has ended
ScrapedDoc == scr.pc = "done" /\ "doc" \in DOMAIN scr.net

\* the least of the positions hits (0 if there is none)
FirstPos(els, hits) ==
    IF hits # {} THEN CHOOSE i \in hits : \A j \in hits : i <= j ELSE 0

\* the scrape ended as it does on main-content text t
EndsOnText(t) ==
    IF _clean_text(t) = <<>>
    THEN scr.result.kind = "Failed" /\ scr.result.reason = "no_readable_text"
    ELSE scr.result.kind = "Ok" /\ scr.result.cleaned = _clean_text(t)

\* C24: of the elements left after noise removal the text extracted is that
\* of the first article if there is one, else of the first main, else of the
\* first element with id "content", else of the first element whose class
\* matches article|content|post|story in any letter case, else of the body;
\* without any of them the scrape ends in Failed(no_content_found).
C24_MainContentPriority ==
    ScrapedDoc =>
        LET els == RemoveNoise(scr.net.doc.elements)
            a == FirstPos(els, {k \in 1..Len(els) : els[k].tag = "article"})
            m == FirstPos(els, {k \in 1..Len(els) : els[k].tag = "main"})
            i == FirstPos(els, {k \in 1..Len(els) : els[k].id = "content"})
            c == FirstPos(els, {k \in 1..Len(els) : ClassMatches(els[k].class)})
        IN  IF a > 0 THEN EndsOnText(els[a].text)
            ELSE IF m > 0 THEN EndsOnText(els[m].text)
            ELSE IF i > 0 THEN EndsOnText(els[i].text)
            ELSE IF c > 0 THEN EndsOnText(els[c].text)
            ELSE IF scr.net.doc.has_body
            THEN EndsOnText(JoinLines(TextsOfElements(els)))
            ELSE /\ scr.result.kind = "Failed"
                 /\ scr.result.reason = "no_content_found"

C24_Witness ==
    /\ ScrapedDoc
    /\ scr.net.doc.has_body
    /\ Len(scr.net.doc.elements) = 2
    /\ IsMain(scr.net.doc.elements[1])
    /\ IsArticle(scr.net.doc.elements[2])
    /\ scr.result.kind = "Ok"
    /\ scr.result.cleaned = <<"A">>

\* the style attribute contains display:none or visibility:hidden, in any
\* letter case
MarkedHidden(style) ==
    \/ Contains(LowerAll(style), <<"d", "i", "s", "p", "l", "a", "y", ":", "n", "o", "n", "e">>)
    \/ Contains(LowerAll(style),
                <<"v", "i", "s", "i", "b", "i", "l", "i", "t", "y", ":",
                  "h", "i", "d", "d", "e", "n">>)

\* C25: no character of the text of an element whose style attribute contains
\* display:none or visibility:hidden, in any letter case, is in the output.
C25_HiddenTextNeverExtracted ==
    ScrapedDoc =>
        \A k \in 1..Len(scr.net.doc.elements) :
            LET e == scr.net.doc.elements[k]
            IN  MarkedHidden(e.style) =>
                    \A n \in 1..Len(scr.result.out) : \A j \in 1..Len(e.text) :
                        scr.result.out[n] # e.text[j]

====
